---- MODULE Spec2Model ----
(***************************************************************************)
(* VirtIO block device driver, risc_v/ch9/src/block.rs.                    *)
(*                                                                         *)
(* The model follows the driver's three entry points (setup_block_device,  *)
(* read, write) and init statement by statement.  Calls are made by the    *)
(* members of Threads; every action is one statement (or one straight run  *)
(* of statements on call-local data) of one call, so that calls interleave *)
(* at statement boundaries.                                                *)
(***************************************************************************)
EXTENDS Integers, Sequences, FiniteSets, TLC

VARIABLES BLOCK_DEVICES, queues, requests, regs, pc, call, local, io, ncalls

vars == <<BLOCK_DEVICES, queues, requests, regs, pc, call, local, io, ncalls>>

----------------------------------------------------------------------------
(* Bounds of the model *)

\* calls made in one behaviour
MaxCalls == 3
\* read and write address devices 0..MaxDev
MaxDev == 1
\* calls made on a ring taken up at an arbitrary cursor (SpecRing)
RingCalls == 1

\* the callers: a call and one call concurrent with (or re-entered during) it
Threads == {1, 2}
\* the MMIO register blocks that are probed
Ptrs == {1, 2}
\* what callers pass to read and write
Devs == 0..MaxDev
Offsets == {511, 1024}
Sizes == {512}
Buffers == {1}

----------------------------------------------------------------------------
(* Constants of crate::virtio and of the block protocol *)

VIRTIO_RING_SIZE == 8
VIRTIO_DESC_F_NEXT == 1
VIRTIO_DESC_F_WRITE == 2

Acknowledge == 1
Driver == 2
DriverOk == 4
FeaturesOk == 8
Failed == 128

VIRTIO_BLK_T_IN == 0
VIRTIO_BLK_T_OUT == 1
VIRTIO_BLK_F_RO == 5

SectorSize == 512

\* size_of::<Header>(): u32 blktype, u32 reserved, u64 sector
SizeOfHeader == 4 + 4 + 8
\* size_of::<Status>(): one u8
SizeOfStatus == 1
\* size_of::<Request>() under repr(C) on a 64-bit target: header at 0..16,
\* data (a pointer) at 16..24, status at 24, head (u16) at 26..28, the whole
\* rounded up to the 8-byte alignment of the record
SizeOfRequest == ((SizeOfHeader + 8 + SizeOfStatus + 1 + 2 + 7) \div 8) * 8

\* a memory cell that was allocated by kmalloc and never written
Uninit == -1

----------------------------------------------------------------------------
(* Bitmaps: a register or flag word is the set of the positions of its set *)
(* bits, so that 32-bit words with the top bit set are representable       *)

Bits32 == 0..31

\* the word whose value is n, for n below 2^31
Word(n) == {i \in 0..30 : (n \div (2 ^ i)) % 2 = 1}

BitAnd(a, b) == a \cap b
BitOr(a, b) == a \cup b
\* ! on a u32
BitNot(a) == Bits32 \ a
\* 1 << n
Shl1(n) == {n}

\* StatusField::features_ok
features_ok(sf) == BitAnd(sf, Word(FeaturesOk)) # {}

----------------------------------------------------------------------------
(* Memory objects *)

NullAddr == <<"null", 0>>
HeaderAddr(r) == <<"header", r>>
StatusAddr(r) == <<"status", r>>
BufferAddr(b) == <<"buffer", b>>

ZeroDescriptor == [addr |-> NullAddr, len |-> 0, flags |-> {}, next |-> 0]

Slots == 0..(VIRTIO_RING_SIZE - 1)

\* the page(s) zalloc hands out: a Queue with every field zero
ZeroQueue ==
    [desc  |-> [i \in Slots |-> ZeroDescriptor],
     avail |-> [idx |-> 0, ring |-> [i \in Slots |-> 0]]]

\* the record kmalloc hands out: nothing in it is initialised
FreshRequest ==
    [header |-> [blktype |-> Uninit, reserved |-> Uninit, sector |-> Uninit],
     data   |-> Uninit,
     status |-> Uninit]

None == [some |-> FALSE, vdq |-> <<>>]
Some(v) == [some |-> TRUE, vdq |-> v]

\* one access to a register of the block at ptr, as the device sees it
Access(kind, ptr, reg, val) == [kind |-> kind, ptr |-> ptr, reg |-> reg, val |-> val]

\* what the device may answer to a read of HostFeatures and of QueueNumMax
HostFeatureSet == {{}, {5, 6}, Bits32}
QueueNumMaxSet == {VIRTIO_RING_SIZE - 1, VIRTIO_RING_SIZE, 2 * VIRTIO_RING_SIZE}

----------------------------------------------------------------------------
(* Call-local data *)

NoCall == [op |-> "none", ptr |-> 0, dev |-> 0, buffer |-> 0, size |-> 0, offset |-> 0]

\* the locals of one call; took says whether its take found Some contents,
\* before is what it took, holds whether the call still owns them (it has
\* neither put them back nor dropped them); held_by is the caller that owned
\* the contents when the take found None (0: nobody); q0 is the queue of the
\* addressed device as the call found it; ret is what the call returned
NoLocal ==
    [vdq |-> <<>>, took |-> FALSE, holds |-> FALSE, before |-> <<>>,
     held_by |-> 0, q0 |-> ZeroQueue,
     status_bits |-> {}, host_features |-> {}, guest_features |-> {},
     status_ok |-> {}, qnmax |-> 0, queue_ptr |-> 0,
     sector |-> 0, blk_request |-> 0,
     head_idx |-> 0, data_idx |-> 0, status_idx |-> 0,
     ret |-> "none"]

Ready(t) == pc[t] \in {"idle", "done"} /\ ncalls < MaxCalls

\* the caller that owns the contents of BLOCK_DEVICES, 0 when nobody does
Holder ==
    IF \E u \in Threads : local[u].holds
    THEN CHOOSE u \in Threads : local[u].holds
    ELSE 0

\* a volatile write of val to register reg of the block of call t
WriteReg(t, reg, val) == Append(io[t], Access("write", call[t].ptr, reg, val))
ReadReg(t, reg, val) == Append(io[t], Access("read", call[t].ptr, reg, val))

----------------------------------------------------------------------------
(* Initial state: the static BLOCK_DEVICES is None, nothing is allocated,   *)
(* every device is in its reset state, no call is running.                 *)

Init ==
    /\ BLOCK_DEVICES = None
    /\ queues = <<>>
    /\ requests = <<>>
    /\ regs = [p \in Ptrs |-> [status |-> {}, queue_num |-> 0, queue_pfn |-> 0]]
    /\ pc = [t \in Threads |-> "idle"]
    /\ call = [t \in Threads |-> NoCall]
    /\ local = [t \in Threads |-> NoLocal]
    /\ io = [t \in Threads |-> <<>>]
    /\ ncalls = 0

----------------------------------------------------------------------------
(* init *)

init(t) ==
    /\ Ready(t)
    /\ ncalls' = ncalls + 1
    /\ BLOCK_DEVICES' = Some(<<>>)
    /\ pc' = [pc EXCEPT ![t] = "done"]
    /\ call' = [call EXCEPT ![t] = [NoCall EXCEPT !.op = "init"]]
    /\ local' = [local EXCEPT ![t] = [NoLocal EXCEPT !.ret = "unit"]]
    /\ io' = [io EXCEPT ![t] = <<>>]
    /\ UNCHANGED <<queues, requests, regs>>

----------------------------------------------------------------------------
(* setup_block_device *)

\* BLOCK_DEVICES.take() at the head of setup_block_device: the contents move
\* into vdq; with None the call returns false at once
setup_take(t, ptr) ==
    /\ Ready(t)
    /\ ncalls' = ncalls + 1
    /\ call' = [call EXCEPT ![t] = [NoCall EXCEPT !.op = "setup", !.ptr = ptr]]
    /\ io' = [io EXCEPT ![t] = <<>>]
    /\ IF BLOCK_DEVICES.some
       THEN /\ BLOCK_DEVICES' = None
            /\ local' = [local EXCEPT ![t] =
                            [NoLocal EXCEPT !.vdq = BLOCK_DEVICES.vdq,
                                            !.before = BLOCK_DEVICES.vdq,
                                            !.took = TRUE,
                                            !.holds = TRUE]]
            /\ pc' = [pc EXCEPT ![t] = "setup_reset"]
       ELSE /\ UNCHANGED BLOCK_DEVICES
            /\ local' = [local EXCEPT ![t] = [NoLocal EXCEPT !.ret = "false",
                                                             !.held_by = Holder]]
            /\ pc' = [pc EXCEPT ![t] = "done"]
    /\ UNCHANGED <<queues, requests, regs>>

\* a volatile write to the status register by call t
WriteStatus(t, val) ==
    /\ io' = [io EXCEPT ![t] = WriteReg(t, "Status", val)]
    /\ regs' = [regs EXCEPT ![call[t].ptr].status = val]

\* 1. reset the device
setup_reset(t) ==
    /\ pc[t] = "setup_reset"
    /\ WriteStatus(t, Word(0))
    /\ pc' = [pc EXCEPT ![t] = "setup_acknowledge"]
    /\ UNCHANGED <<BLOCK_DEVICES, queues, requests, call, local, ncalls>>

\* 2. status_bits = Acknowledge, written to the status register
setup_acknowledge(t) ==
    /\ pc[t] = "setup_acknowledge"
    /\ local' = [local EXCEPT ![t].status_bits = Word(Acknowledge)]
    /\ WriteStatus(t, Word(Acknowledge))
    /\ pc' = [pc EXCEPT ![t] = "setup_driver"]
    /\ UNCHANGED <<BLOCK_DEVICES, queues, requests, call, ncalls>>

\* the bits the statement under "3. Set the DRIVER status bit" ors in
DriverStepBits == Word(DriverOk)

\* 3. status_bits |= StatusField::DriverOk, written to the status register
setup_driver(t) ==
    /\ pc[t] = "setup_driver"
    /\ LET bits == BitOr(local[t].status_bits, DriverStepBits)
       IN /\ local' = [local EXCEPT ![t].status_bits = bits]
          /\ WriteStatus(t, bits)
    /\ pc' = [pc EXCEPT ![t] = "setup_features"]
    /\ UNCHANGED <<BLOCK_DEVICES, queues, requests, call, ncalls>>

\* VIRTIO_BLK_F_RO taken for a mask instead of a bit position
GuestFeaturesByMask(host_features) ==
    BitAnd(host_features, BitNot(Word(VIRTIO_BLK_F_RO)))

\* host_features & !(1 << VIRTIO_BLK_F_RO)
GuestFeatures(host_features) ==
    BitAnd(host_features, BitNot(Shl1(VIRTIO_BLK_F_RO)))

\* 4. read the host features, write the guest features
setup_features(t) ==
    /\ pc[t] = "setup_features"
    /\ \E hf \in HostFeatureSet :
          /\ local' = [local EXCEPT ![t].host_features = hf,
                                    ![t].guest_features = GuestFeatures(hf)]
          /\ io' = [io EXCEPT ![t] =
                       io[t] \o <<Access("read", call[t].ptr, "HostFeatures", hf),
                                  Access("write", call[t].ptr, "GuestFeatures",
                                         GuestFeatures(hf))>>]
    /\ pc' = [pc EXCEPT ![t] = "setup_features_ok"]
    /\ UNCHANGED <<BLOCK_DEVICES, queues, requests, regs, call, ncalls>>

\* 5. status_bits |= FeaturesOk, written to the status register
setup_features_ok(t) ==
    /\ pc[t] = "setup_features_ok"
    /\ LET bits == BitOr(local[t].status_bits, Word(FeaturesOk))
       IN /\ local' = [local EXCEPT ![t].status_bits = bits]
          /\ WriteStatus(t, bits)
    /\ pc' = [pc EXCEPT ![t] = "setup_reread"]
    /\ UNCHANGED <<BLOCK_DEVICES, queues, requests, call, ncalls>>

\* what the device may answer to a read of its status register: what the
\* register holds, with FEATURES_OK kept or cleared
StatusAnswers(p) ==
    {regs[p].status, BitAnd(regs[p].status, BitNot(Word(FeaturesOk)))}

\* a refusal that keeps the bits written so far and adds none
FailedStatusKeepsBits(status_bits) == status_bits

\* the value written to the status register when the features are refused
FailedStatus(status_bits) == Word(Failed)

\* 6. re-read the status; without FEATURES_OK write Failed and return false
\*    (vdq, still owned by the call, is dropped: BLOCK_DEVICES stays None)
setup_reread(t) ==
    /\ pc[t] = "setup_reread"
    /\ \E status_ok \in StatusAnswers(call[t].ptr) :
          IF ~features_ok(status_ok)
          THEN /\ local' = [local EXCEPT ![t].status_ok = status_ok,
                                         ![t].vdq = <<>>,
                                         ![t].holds = FALSE,
                                         ![t].ret = "false"]
               /\ io' = [io EXCEPT ![t] =
                            ReadReg(t, "Status", status_ok)
                            \o <<Access("write", call[t].ptr, "Status",
                                        FailedStatus(local[t].status_bits))>>]
               /\ regs' = [regs EXCEPT ![call[t].ptr].status =
                                           FailedStatus(local[t].status_bits)]
               /\ pc' = [pc EXCEPT ![t] = "done"]
          ELSE /\ local' = [local EXCEPT ![t].status_ok = status_ok]
               /\ io' = [io EXCEPT ![t] = ReadReg(t, "Status", status_ok)]
               /\ UNCHANGED regs
               /\ pc' = [pc EXCEPT ![t] = "setup_queue_num"]
    /\ UNCHANGED <<BLOCK_DEVICES, queues, requests, call, ncalls>>

\* the comparison with >= for >: a device offering exactly the ring size fails
QueueTooLargeOrEqual(qnmax) == VIRTIO_RING_SIZE >= qnmax

\* the comparison off by one: a device one slot short passes
QueueTooLargeByTwo(qnmax) == VIRTIO_RING_SIZE > qnmax + 1

\* VIRTIO_RING_SIZE as u32 > qnmax
QueueTooLarge(qnmax) == VIRTIO_RING_SIZE > qnmax

\* 7. read QueueNumMax, write QueueNum, then compare; a ring the device
\*    cannot take returns false (vdq is dropped: BLOCK_DEVICES stays None)
setup_queue_num(t) ==
    /\ pc[t] = "setup_queue_num"
    /\ \E qnmax \in QueueNumMaxSet :
          /\ io' = [io EXCEPT ![t] =
                       io[t] \o <<Access("read", call[t].ptr, "QueueNumMax", qnmax),
                                  Access("write", call[t].ptr, "QueueNum",
                                         VIRTIO_RING_SIZE)>>]
          /\ regs' = [regs EXCEPT ![call[t].ptr].queue_num = VIRTIO_RING_SIZE]
          /\ IF QueueTooLarge(qnmax)
             THEN /\ local' = [local EXCEPT ![t].qnmax = qnmax,
                                            ![t].vdq = <<>>,
                                            ![t].holds = FALSE,
                                            ![t].ret = "false"]
                  /\ pc' = [pc EXCEPT ![t] = "done"]
             ELSE /\ local' = [local EXCEPT ![t].qnmax = qnmax]
                  /\ pc' = [pc EXCEPT ![t] = "setup_queue_pfn"]
    /\ UNCHANGED <<BLOCK_DEVICES, queues, requests, call, ncalls>>

\* zalloc(num_pages): a fresh zeroed Queue; its address is written to QueuePfn
setup_queue_pfn(t) ==
    /\ pc[t] = "setup_queue_pfn"
    /\ LET queue_ptr == Len(queues) + 1
       IN /\ queues' = Append(queues, ZeroQueue)
          /\ local' = [local EXCEPT ![t].queue_ptr = queue_ptr]
          /\ io' = [io EXCEPT ![t] = WriteReg(t, "QueuePfn", queue_ptr)]
          /\ regs' = [regs EXCEPT ![call[t].ptr].queue_pfn = queue_ptr]
    /\ pc' = [pc EXCEPT ![t] = "setup_push_back"]
    /\ UNCHANGED <<BLOCK_DEVICES, requests, call, ncalls>>

\* a device whose cursor starts on slot 0
NewBlockDeviceAtZero(queue_ptr, ptr) == [queue |-> queue_ptr, dev |-> ptr, idx |-> 0]

\* BlockDevice { queue: queue_ptr, dev: ptr, idx: 1 }
NewBlockDevice(queue_ptr, ptr) == [queue |-> queue_ptr, dev |-> ptr, idx |-> 1]

\* vdq.push_back(bd)
setup_push_back(t) ==
    /\ pc[t] = "setup_push_back"
    /\ local' = [local EXCEPT ![t].vdq =
                    Append(local[t].vdq,
                           NewBlockDevice(local[t].queue_ptr, call[t].ptr))]
    /\ pc' = [pc EXCEPT ![t] = "setup_replace"]
    /\ UNCHANGED <<BLOCK_DEVICES, queues, requests, regs, call, io, ncalls>>

\* BLOCK_DEVICES.replace(vdq): the contents move back into the static
setup_replace(t) ==
    /\ pc[t] = "setup_replace"
    /\ BLOCK_DEVICES' = Some(local[t].vdq)
    /\ local' = [local EXCEPT ![t].holds = FALSE]
    /\ pc' = [pc EXCEPT ![t] = "setup_driver_ok"]
    /\ UNCHANGED <<queues, requests, regs, call, io, ncalls>>

\* 8. status_bits |= DriverOk, written to the status register; return true
setup_driver_ok(t) ==
    /\ pc[t] = "setup_driver_ok"
    /\ LET bits == BitOr(local[t].status_bits, Word(DriverOk))
       IN /\ local' = [local EXCEPT ![t].status_bits = bits, ![t].ret = "true"]
          /\ WriteStatus(t, bits)
    /\ pc' = [pc EXCEPT ![t] = "done"]
    /\ UNCHANGED <<BLOCK_DEVICES, queues, requests, call, ncalls>>

----------------------------------------------------------------------------
(* fill_next_descriptor *)

\* a cursor that skips a slot on every fill
NextSlotSkipsOne(idx) == (idx + 2) % VIRTIO_RING_SIZE

\* the slot after idx
NextSlot(idx) == (idx + 1) % VIRTIO_RING_SIZE

\* a successor computed without the wrap to slot 0
ChainNextNoWrap(idx) == idx + 1

\* the successor stored in a chained descriptor placed at idx
ChainNext(idx) == (idx + 1) % VIRTIO_RING_SIZE

\* fill_next_descriptor(bd, desc) on the queue contents q that bd.queue points
\* to: the device with its cursor advanced, the queue with desc stored at the
\* new cursor (its next set when it is chained), and the index returned
fill_next_descriptor(bd, q, desc) ==
    LET idx == NextSlot(bd.idx)
        stored == IF BitAnd(desc.flags, Word(VIRTIO_DESC_F_NEXT)) # {}
                  THEN [desc EXCEPT !.next = ChainNext(idx)]
                  ELSE desc
    IN [bd    |-> [bd EXCEPT !.idx = idx],
        queue |-> [q EXCEPT !.desc[idx] = stored],
        ret   |-> idx]

\* the device a call addresses: bdev_alloc.get_mut(dev)
HasDevice(t) == call[t].dev + 1 <= Len(local[t].vdq)
Bdev(t) == local[t].vdq[call[t].dev + 1]

\* one fill_next_descriptor call made by call t on its device
FillFor(t, desc) == fill_next_descriptor(Bdev(t), queues[Bdev(t).queue], desc)

----------------------------------------------------------------------------
(* read *)

\* a read that does not look at what take returned and goes on regardless
read_take_unchecked(t, dev, buffer, size, offset) ==
    /\ Ready(t)
    /\ ncalls' = ncalls + 1
    /\ call' = [call EXCEPT ![t] =
                   [op |-> "read", ptr |-> 0, dev |-> dev, buffer |-> buffer,
                    size |-> size, offset |-> offset]]
    /\ io' = [io EXCEPT ![t] = <<>>]
    /\ BLOCK_DEVICES' = None
    /\ local' = [local EXCEPT ![t] =
                    [NoLocal EXCEPT !.vdq = BLOCK_DEVICES.vdq,
                                    !.before = BLOCK_DEVICES.vdq,
                                    !.took = BLOCK_DEVICES.some,
                                    !.holds = TRUE]]
    /\ pc' = [pc EXCEPT ![t] = "read_header_desc"]
    /\ UNCHANGED <<queues, requests, regs>>

\* BLOCK_DEVICES.take() at the head of read: with None the call does nothing
read_take(t, dev, buffer, size, offset) ==
    /\ Ready(t)
    /\ ncalls' = ncalls + 1
    /\ call' = [call EXCEPT ![t] =
                   [op |-> "read", ptr |-> 0, dev |-> dev, buffer |-> buffer,
                    size |-> size, offset |-> offset]]
    /\ io' = [io EXCEPT ![t] = <<>>]
    /\ IF BLOCK_DEVICES.some
       THEN /\ BLOCK_DEVICES' = None
            /\ local' = [local EXCEPT ![t] =
                            [NoLocal EXCEPT !.vdq = BLOCK_DEVICES.vdq,
                                            !.before = BLOCK_DEVICES.vdq,
                                            !.took = TRUE,
                                            !.holds = TRUE]]
            /\ pc' = [pc EXCEPT ![t] = "read_header_desc"]
       ELSE /\ UNCHANGED BLOCK_DEVICES
            /\ local' = [local EXCEPT ![t] = [NoLocal EXCEPT !.ret = "unit",
                                                             !.held_by = Holder]]
            /\ pc' = [pc EXCEPT ![t] = "done"]
    /\ UNCHANGED <<queues, requests, regs>>

\* offset / 512
Sector(offset) == offset \div SectorSize

\* the len of the header descriptor: blk_request_size
HeaderDescLen == SizeOfRequest

\* the three descriptors read builds for request r
ReadHeaderDesc(r) ==
    [addr |-> HeaderAddr(r), len |-> HeaderDescLen,
     flags |-> Word(VIRTIO_DESC_F_NEXT), next |-> 0]
ReadDataDesc(buffer, size) ==
    [addr |-> BufferAddr(buffer), len |-> size,
     flags |-> BitOr(Word(VIRTIO_DESC_F_NEXT), Word(VIRTIO_DESC_F_WRITE)), next |-> 0]
ReadStatusDesc(r) ==
    [addr |-> StatusAddr(r), len |-> SizeOfStatus,
     flags |-> Word(VIRTIO_DESC_F_WRITE), next |-> 0]

\* get_mut(dev).unwrap(), the sector, kmalloc of the Request, and the header
\* descriptor; unwrap on a missing device panics: the call never returns and
\* what it took is never put back
read_header_desc(t) ==
    /\ pc[t] = "read_header_desc"
    /\ IF ~HasDevice(t)
       THEN /\ local' = [local EXCEPT ![t].ret = "panic"]
            /\ pc' = [pc EXCEPT ![t] = "panic"]
            /\ UNCHANGED <<queues, requests>>
       ELSE LET r == Len(requests) + 1
                res == FillFor(t, ReadHeaderDesc(r))
            IN /\ requests' = Append(requests, FreshRequest)
               /\ queues' = [queues EXCEPT ![Bdev(t).queue] = res.queue]
               /\ local' = [local EXCEPT ![t].sector = Sector(call[t].offset),
                                         ![t].q0 = queues[Bdev(t).queue],
                                         ![t].blk_request = r,
                                         ![t].vdq[call[t].dev + 1] = res.bd,
                                         ![t].head_idx = res.ret]
               /\ pc' = [pc EXCEPT ![t] = "read_header_fields"]
    /\ UNCHANGED <<BLOCK_DEVICES, regs, call, io, ncalls>>

\* header.sector, header.blktype and data.data of the Request
read_header_fields(t) ==
    /\ pc[t] = "read_header_fields"
    /\ requests' = [requests EXCEPT
                      ![local[t].blk_request].header.sector = local[t].sector,
                      ![local[t].blk_request].header.blktype = VIRTIO_BLK_T_IN,
                      ![local[t].blk_request].data = BufferAddr(call[t].buffer)]
    /\ pc' = [pc EXCEPT ![t] = "read_data_desc"]
    /\ UNCHANGED <<BLOCK_DEVICES, queues, regs, call, local, io, ncalls>>

\* the data descriptor
read_data_desc(t) ==
    /\ pc[t] = "read_data_desc"
    /\ LET res == FillFor(t, ReadDataDesc(call[t].buffer, call[t].size))
       IN /\ queues' = [queues EXCEPT ![Bdev(t).queue] = res.queue]
          /\ local' = [local EXCEPT ![t].vdq[call[t].dev + 1] = res.bd,
                                    ![t].data_idx = res.ret]
    /\ pc' = [pc EXCEPT ![t] = "read_status_desc"]
    /\ UNCHANGED <<BLOCK_DEVICES, requests, regs, call, io, ncalls>>

\* the status descriptor, with the doorbell rung before the chain is published
read_status_desc_then_notify(t) ==
    /\ pc[t] = "read_status_desc"
    /\ LET res == FillFor(t, ReadStatusDesc(local[t].blk_request))
       IN /\ queues' = [queues EXCEPT ![Bdev(t).queue] = res.queue]
          /\ local' = [local EXCEPT ![t].vdq[call[t].dev + 1] = res.bd,
                                    ![t].status_idx = res.ret]
    /\ pc' = [pc EXCEPT ![t] = "read_notify"]
    /\ UNCHANGED <<BLOCK_DEVICES, requests, regs, call, io, ncalls>>

\* the status descriptor
read_status_desc(t) ==
    /\ pc[t] = "read_status_desc"
    /\ LET res == FillFor(t, ReadStatusDesc(local[t].blk_request))
       IN /\ queues' = [queues EXCEPT ![Bdev(t).queue] = res.queue]
          /\ local' = [local EXCEPT ![t].vdq[call[t].dev + 1] = res.bd,
                                    ![t].status_idx = res.ret]
    /\ pc' = [pc EXCEPT ![t] = "read_avail_ring"]
    /\ UNCHANGED <<BLOCK_DEVICES, requests, regs, call, io, ncalls>>

\* avail.ring[avail.idx] = head_idx
PublishHead(q, head_idx) == [q EXCEPT !.avail.ring[q.avail.idx] = head_idx]

read_avail_ring(t) ==
    /\ pc[t] = "read_avail_ring"
    /\ queues' = [queues EXCEPT ![Bdev(t).queue] =
                     PublishHead(queues[Bdev(t).queue], local[t].head_idx)]
    /\ pc' = [pc EXCEPT ![t] = "read_avail_idx"]
    /\ UNCHANGED <<BLOCK_DEVICES, requests, regs, call, local, io, ncalls>>

\* a producer index that moves by the number of descriptors of the chain
AdvanceAvailByChain(idx) == (idx + 3) % VIRTIO_RING_SIZE

\* avail.idx = (avail.idx + 1) % VIRTIO_RING_SIZE
AdvanceAvail(idx) == (idx + 1) % VIRTIO_RING_SIZE

read_avail_idx(t) ==
    /\ pc[t] = "read_avail_idx"
    /\ queues' = [queues EXCEPT ![Bdev(t).queue].avail.idx =
                     AdvanceAvail(queues[Bdev(t).queue].avail.idx)]
    /\ pc' = [pc EXCEPT ![t] = "read_notify"]
    /\ UNCHANGED <<BLOCK_DEVICES, requests, regs, call, local, io, ncalls>>

\* the value written to QueueNotify
NotifyValue == 0

\* the doorbell; then the call returns and bdev_alloc, which it still owns,
\* is dropped: BLOCK_DEVICES stays None
read_notify(t) ==
    /\ pc[t] = "read_notify"
    /\ io' = [io EXCEPT ![t] =
                 Append(io[t], Access("write", Bdev(t).dev, "QueueNotify",
                                      NotifyValue))]
    /\ local' = [local EXCEPT ![t].holds = FALSE, ![t].ret = "unit"]
    /\ pc' = [pc EXCEPT ![t] = "done"]
    /\ UNCHANGED <<BLOCK_DEVICES, queues, requests, regs, call, ncalls>>

----------------------------------------------------------------------------
(* write *)

\* BLOCK_DEVICES.take() at the head of write
write_take(t, dev, buffer, size, offset) ==
    /\ Ready(t)
    /\ ncalls' = ncalls + 1
    /\ call' = [call EXCEPT ![t] =
                   [op |-> "write", ptr |-> 0, dev |-> dev, buffer |-> buffer,
                    size |-> size, offset |-> offset]]
    /\ io' = [io EXCEPT ![t] = <<>>]
    /\ IF BLOCK_DEVICES.some
       THEN /\ BLOCK_DEVICES' = None
            /\ local' = [local EXCEPT ![t] =
                            [NoLocal EXCEPT !.vdq = BLOCK_DEVICES.vdq,
                                            !.before = BLOCK_DEVICES.vdq,
                                            !.took = TRUE,
                                            !.holds = TRUE]]
            /\ pc' = [pc EXCEPT ![t] = "write_head_desc"]
       ELSE /\ UNCHANGED BLOCK_DEVICES
            /\ local' = [local EXCEPT ![t] = [NoLocal EXCEPT !.ret = "unit",
                                                             !.held_by = Holder]]
            /\ pc' = [pc EXCEPT ![t] = "done"]
    /\ UNCHANGED <<queues, requests, regs>>

\* the descriptor write builds three times over: all fields zero
WriteDesc == ZeroDescriptor

\* get_mut(dev).unwrap(), the sector, and the first descriptor
write_head_desc(t) ==
    /\ pc[t] = "write_head_desc"
    /\ IF ~HasDevice(t)
       THEN /\ local' = [local EXCEPT ![t].ret = "panic"]
            /\ pc' = [pc EXCEPT ![t] = "panic"]
            /\ UNCHANGED queues
       ELSE LET res == FillFor(t, WriteDesc)
            IN /\ queues' = [queues EXCEPT ![Bdev(t).queue] = res.queue]
               /\ local' = [local EXCEPT ![t].sector = Sector(call[t].offset),
                                         ![t].q0 = queues[Bdev(t).queue],
                                         ![t].vdq[call[t].dev + 1] = res.bd,
                                         ![t].head_idx = res.ret]
               /\ pc' = [pc EXCEPT ![t] = "write_data_desc"]
    /\ UNCHANGED <<BLOCK_DEVICES, requests, regs, call, io, ncalls>>

\* the second descriptor
write_data_desc(t) ==
    /\ pc[t] = "write_data_desc"
    /\ LET res == FillFor(t, WriteDesc)
       IN /\ queues' = [queues EXCEPT ![Bdev(t).queue] = res.queue]
          /\ local' = [local EXCEPT ![t].vdq[call[t].dev + 1] = res.bd,
                                    ![t].data_idx = res.ret]
    /\ pc' = [pc EXCEPT ![t] = "write_status_desc"]
    /\ UNCHANGED <<BLOCK_DEVICES, requests, regs, call, io, ncalls>>

\* the third descriptor; then the call returns and bdev_alloc is dropped
write_status_desc(t) ==
    /\ pc[t] = "write_status_desc"
    /\ LET res == FillFor(t, WriteDesc)
       IN /\ queues' = [queues EXCEPT ![Bdev(t).queue] = res.queue]
          /\ local' = [local EXCEPT ![t].vdq[call[t].dev + 1] = res.bd,
                                    ![t].status_idx = res.ret,
                                    ![t].holds = FALSE,
                                    ![t].ret = "unit"]
    /\ pc' = [pc EXCEPT ![t] = "done"]
    /\ UNCHANGED <<BLOCK_DEVICES, requests, regs, call, io, ncalls>>

----------------------------------------------------------------------------
(* The program: calls of init, setup_block_device, read and write *)

Next ==
    \E t \in Threads :
        \/ init(t)
        \/ \E ptr \in Ptrs : setup_take(t, ptr)
        \/ setup_reset(t)
        \/ setup_acknowledge(t)
        \/ setup_driver(t)
        \/ setup_features(t)
        \/ setup_features_ok(t)
        \/ setup_reread(t)
        \/ setup_queue_num(t)
        \/ setup_queue_pfn(t)
        \/ setup_push_back(t)
        \/ setup_replace(t)
        \/ setup_driver_ok(t)
        \/ \E dev \in Devs, buffer \in Buffers, size \in Sizes, offset \in Offsets :
              read_take(t, dev, buffer, size, offset)
        \/ read_header_desc(t)
        \/ read_header_fields(t)
        \/ read_data_desc(t)
        \/ read_status_desc(t)
        \/ read_avail_ring(t)
        \/ read_avail_idx(t)
        \/ read_notify(t)
        \/ \E dev \in Devs, buffer \in Buffers, size \in Sizes, offset \in Offsets :
              write_take(t, dev, buffer, size, offset)
        \/ write_head_desc(t)
        \/ write_data_desc(t)
        \/ write_status_desc(t)

Spec == Init /\ [][Next]_vars

----------------------------------------------------------------------------
(* The driver taken up with one device registered, at any point of the life *)
(* of its ring: init and a successful setup_block_device of register block  *)
(* 1 have been called, and the cursor of the device and the producer index  *)
(* of its available ring stand anywhere in the ring (the producer index at  *)
(* its first or its last position).  With cursor 1 and producer index 0     *)
(* this is the state setup_block_device leaves.                            *)

RingInit ==
    /\ \E c \in Slots, a \in {0, VIRTIO_RING_SIZE - 1} :
          /\ BLOCK_DEVICES = Some(<<[NewBlockDevice(1, 1) EXCEPT !.idx = c]>>)
          /\ queues = <<[ZeroQueue EXCEPT !.avail.idx = a]>>
    /\ requests = <<>>
    /\ regs = [p \in Ptrs |->
                 IF p = 1
                 THEN [status |-> BitOr(Word(Acknowledge),
                                        BitOr(DriverStepBits,
                                              BitOr(Word(FeaturesOk), Word(DriverOk)))),
                       queue_num |-> VIRTIO_RING_SIZE, queue_pfn |-> 1]
                 ELSE [status |-> {}, queue_num |-> 0, queue_pfn |-> 0]]
    /\ pc = [t \in Threads |-> "idle"]
    /\ call = [t \in Threads |-> NoCall]
    /\ local = [t \in Threads |-> NoLocal]
    /\ io = [t \in Threads |-> <<>>]
    /\ ncalls = MaxCalls - RingCalls

SpecRing == RingInit /\ [][Next]_vars

----------------------------------------------------------------------------
(* What a call did to the registers, read off its access log *)

WritesTo(t, reg) == SelectSeq(io[t], LAMBDA a : a.kind = "write" /\ a.reg = reg)
ReadsOf(t, reg) == SelectSeq(io[t], LAMBDA a : a.kind = "read" /\ a.reg = reg)
ValsOf(accesses) == [i \in 1..Len(accesses) |-> accesses[i].val]
StatusWrites(t) == ValsOf(WritesTo(t, "Status"))

IsSetup(t) == call[t].op = "setup"
IsRead(t) == call[t].op = "read"
IsWrite(t) == call[t].op = "write"
Returned(t) == pc[t] = "done"

\* the step of call t that leaves the statement at label
Leaves(t, label) == pc[t] = label /\ pc'[t] # label

\* the device answered the re-read of the status with FEATURES_OK cleared
FeaturesRejected(t) ==
    \E i \in 1..Len(io[t]) :
        /\ io[t][i].kind = "read" /\ io[t][i].reg = "Status"
        /\ ~features_ok(io[t][i].val)
FeaturesKept(t) ==
    \E i \in 1..Len(io[t]) :
        /\ io[t][i].kind = "read" /\ io[t][i].reg = "Status"
        /\ features_ok(io[t][i].val)

\* the device reported a maximum ring size below / not below the driver's
RingTooSmall(t) ==
    \E i \in 1..Len(io[t]) :
        /\ io[t][i].kind = "read" /\ io[t][i].reg = "QueueNumMax"
        /\ io[t][i].val < VIRTIO_RING_SIZE
RingFits(t) ==
    \E i \in 1..Len(io[t]) :
        /\ io[t][i].kind = "read" /\ io[t][i].reg = "QueueNumMax"
        /\ io[t][i].val >= VIRTIO_RING_SIZE

\* the labels of setup_block_device before vdq goes back into BLOCK_DEVICES
BeforeReplace ==
    {"setup_reset", "setup_acknowledge", "setup_driver", "setup_features",
     "setup_features_ok", "setup_reread", "setup_queue_num", "setup_queue_pfn",
     "setup_push_back", "setup_replace"}

----------------------------------------------------------------------------
(* C1 *)

\* C1: a successful setup_block_device writes to the status register, in
\* this order, 0, ACKNOWLEDGE, ACKNOWLEDGE|DRIVER, ACKNOWLEDGE|DRIVER|
\* FEATURES_OK and ACKNOWLEDGE|DRIVER|FEATURES_OK|DRIVER_OK, and no status
\* write made before the device is inserted into the Registry contains
\* DRIVER_OK.
C1_StatusWritesFollowProtocol ==
    \A t \in Threads :
        IsSetup(t) =>
            /\ (Returned(t) /\ local[t].ret = "true") =>
                  StatusWrites(t) =
                     <<Word(0),
                       Word(Acknowledge),
                       Word(Acknowledge + Driver),
                       Word(Acknowledge + Driver + FeaturesOk),
                       Word(Acknowledge + Driver + FeaturesOk + DriverOk)>>
            /\ pc[t] \in BeforeReplace =>
                  \A i \in 1..Len(StatusWrites(t)) :
                      BitAnd(StatusWrites(t)[i], Word(DriverOk)) = {}

----------------------------------------------------------------------------
(* C2 *)

\* the device kept FEATURES_OK and offers a ring of at least VIRTIO_RING_SIZE
Conforming(t) == FeaturesKept(t) /\ RingFits(t)

\* the device setup_block_device builds in call t
BuiltDevice(t) == [queue |-> local[t].queue_ptr, dev |-> call[t].ptr, idx |-> 1]

\* C2: when the device keeps FEATURES_OK and reports a maximum ring size of
\* at least VIRTIO_RING_SIZE, a setup_block_device that found the Registry
\* available returns true, and what it puts back into the Registry is what
\* it took followed by one new BlockDevice that references the given
\* register block and a ring no earlier device references, still all zero.
C2_ConformingSetupRegistersOneDevice ==
    [][\A t \in Threads :
         /\ (IsSetup(t) /\ local[t].took /\ Conforming(t))' =>
               /\ local'[t].ret # "false"
               /\ Returned(t)' => local'[t].ret = "true"
         /\ Leaves(t, "setup_replace") =>
               /\ Conforming(t)
               /\ BLOCK_DEVICES' = Some(Append(local[t].before, BuiltDevice(t)))
               /\ \A i \in 1..Len(local[t].before) :
                     local[t].before[i].queue # local[t].queue_ptr
               /\ local[t].queue_ptr \in 1..Len(queues)
               /\ queues'[local[t].queue_ptr] = ZeroQueue
      ]_vars

\* a conforming setup has returned true and the Registry holds the device it
\* held before followed by the new one
C2_Witness ==
    \E t \in Threads :
        /\ IsSetup(t) /\ Returned(t) /\ local[t].ret = "true" /\ Conforming(t)
        /\ Len(local[t].before) = 1
        /\ BLOCK_DEVICES = Some(Append(local[t].before, BuiltDevice(t)))
        /\ BuiltDevice(t).queue # local[t].before[1].queue

----------------------------------------------------------------------------
(* C3 *)

Count(accesses) == Len(accesses)

\* C3: when the status register reads back without FEATURES_OK,
\* setup_block_device returns false at that statement with the FAILED bit
\* set in the status register, having written neither the queue size nor
\* the queue page frame number, having added no device to the Registry, and
\* having run the handshake once.
C3_RejectedFeaturesFail ==
    [][\A t \in Threads :
         (Leaves(t, "setup_reread") /\ FeaturesRejected(t)') =>
            /\ pc'[t] = "done"
            /\ local'[t].ret = "false"
            /\ BitAnd(regs'[call[t].ptr].status, Word(Failed)) # {}
            /\ (WritesTo(t, "QueueNum"))' = <<>>
            /\ (WritesTo(t, "QueuePfn"))' = <<>>
            /\ BLOCK_DEVICES' = BLOCK_DEVICES
            /\ queues' = queues
            /\ local[t].vdq = local[t].before
            /\ (Count(ReadsOf(t, "Status")))' = 1
            /\ (Count(ReadsOf(t, "HostFeatures")))' = 1
            /\ (Count(WritesTo(t, "GuestFeatures")))' = 1
      ]_vars

\* a setup whose device cleared FEATURES_OK has returned false and the
\* status register of that device holds FAILED
C3_Witness ==
    \E t \in Threads :
        /\ IsSetup(t) /\ Returned(t) /\ FeaturesRejected(t)
        /\ local[t].ret = "false"
        /\ BitAnd(regs[call[t].ptr].status, Word(Failed)) # {}

----------------------------------------------------------------------------
(* C4 *)

\* C4: when the device reports a maximum ring size below VIRTIO_RING_SIZE,
\* setup_block_device returns false at that statement, and the call has not
\* written the queue page frame number, allocated a ring or inserted a
\* BlockDevice into the Registry.
C4_SmallRingFails ==
    [][\A t \in Threads :
         (Leaves(t, "setup_queue_num") /\ RingTooSmall(t)') =>
            /\ pc'[t] = "done"
            /\ local'[t].ret = "false"
            /\ (WritesTo(t, "QueuePfn"))' = <<>>
            /\ local'[t].queue_ptr = 0
            /\ queues' = queues
            /\ local[t].vdq = local[t].before
            /\ BLOCK_DEVICES' = BLOCK_DEVICES
      ]_vars

\* a setup whose device offers fewer than VIRTIO_RING_SIZE slots has
\* returned false
C4_Witness ==
    \E t \in Threads :
        /\ IsSetup(t) /\ Returned(t) /\ RingTooSmall(t)
        /\ local[t].ret = "false"
        /\ WritesTo(t, "QueuePfn") = <<>>

----------------------------------------------------------------------------
(* C5 *)

\* read call t found the Registry available and its device in it, and has
\* returned
Submitted(t) ==
    /\ IsRead(t) /\ Returned(t) /\ local[t].took
    /\ call[t].dev + 1 <= Len(local[t].before)

\* the cursor of the device call t addresses, as the call found it
CursorBefore(t) == local[t].before[call[t].dev + 1].idx

Chained(desc) == BitAnd(desc.flags, Word(VIRTIO_DESC_F_NEXT)) # {}
DeviceWritable(desc) == BitAnd(desc.flags, Word(VIRTIO_DESC_F_WRITE)) # {}

\* C5: a read that finds the Registry available (and its device in it)
\* installs exactly 3 descriptors, in the slots (c+1), (c+2), (c+3) modulo
\* the ring capacity, c being the cursor before the call; the head index is
\* the index returned for the header descriptor; header.sector is
\* offset div 512 and header.blktype is READ; the header descriptor is
\* chained to the data slot, the data descriptor is chained and
\* device-writable with next the status slot, the status descriptor is
\* device-writable and not chained; also when the slots wrap around.
C5_ReadBuildsThreeDescriptorChain ==
    \A t \in Threads :
        Submitted(t) =>
            LET c == CursorBefore(t)
                q == queues[Bdev(t).queue]
                r == local[t].blk_request
                h == (c + 1) % VIRTIO_RING_SIZE
                d == (c + 2) % VIRTIO_RING_SIZE
                s == (c + 3) % VIRTIO_RING_SIZE
            IN /\ local[t].head_idx = h
               /\ local[t].data_idx = d
               /\ local[t].status_idx = s
               /\ Bdev(t).idx = s
               /\ \A i \in Slots \ {h, d, s} : q.desc[i] = local[t].q0.desc[i]
               /\ q.desc[h].addr = HeaderAddr(r)
               /\ Chained(q.desc[h]) /\ ~DeviceWritable(q.desc[h])
               /\ q.desc[h].next = d
               /\ q.desc[d].addr = BufferAddr(call[t].buffer)
               /\ q.desc[d].len = call[t].size
               /\ Chained(q.desc[d]) /\ DeviceWritable(q.desc[d])
               /\ q.desc[d].next = s
               /\ q.desc[s].addr = StatusAddr(r)
               /\ ~Chained(q.desc[s]) /\ DeviceWritable(q.desc[s])
               /\ requests[r].header.sector = call[t].offset \div 512
               /\ requests[r].header.blktype = VIRTIO_BLK_T_IN
               /\ (c = 0 /\ call[t].offset = 1024) =>
                     /\ requests[r].header.sector = 2
                     /\ <<local[t].head_idx, local[t].data_idx, local[t].status_idx>>
                           = <<1, 2, 3>>

\* a read found the cursor on the last but one slot: its chain occupies the
\* last slot and the first two, linked across the end of the array
C5_Witness ==
    \E t \in Threads :
        /\ Submitted(t)
        /\ CursorBefore(t) = VIRTIO_RING_SIZE - 2
        /\ local[t].head_idx = VIRTIO_RING_SIZE - 1
        /\ queues[Bdev(t).queue].desc[VIRTIO_RING_SIZE - 1].next = 0
        /\ queues[Bdev(t).queue].desc[0].next = 1
        /\ local[t].status_idx = 1
        /\ requests[local[t].blk_request].header.sector = 2

----------------------------------------------------------------------------
(* C6 *)

AllQueuesInRange ==
    \A i \in 1..Len(queues) : queues[i].avail.idx \in Slots

\* C6: a read that submits a request writes the head index of its chain
\* into the available ring at the producer index it found, changes no other
\* slot of the available ring, and leaves the producer index advanced by
\* exactly 1 modulo the ring capacity; the producer index of every ring is
\* always within 0..capacity-1.
C6_ProducerIndexAdvancesByOne ==
    /\ AllQueuesInRange
    /\ \A t \in Threads :
          Submitted(t) =>
             LET q == queues[Bdev(t).queue]
                 a == local[t].q0.avail.idx
             IN /\ q.avail.ring[a] = local[t].head_idx
                /\ \A i \in Slots \ {a} :
                      q.avail.ring[i] = local[t].q0.avail.ring[i]
                /\ q.avail.idx = (a + 1) % VIRTIO_RING_SIZE

\* a read found the producer index on the last slot of the available ring,
\* published its head there and left the producer index at 0
C6_Witness ==
    \E t \in Threads :
        /\ Submitted(t)
        /\ local[t].q0.avail.idx = VIRTIO_RING_SIZE - 1
        /\ queues[Bdev(t).queue].avail.ring[VIRTIO_RING_SIZE - 1] = local[t].head_idx
        /\ local[t].head_idx # 0
        /\ queues[Bdev(t).queue].avail.idx = 0

----------------------------------------------------------------------------
(* C7 *)

\* the statements of read and write that call fill_next_descriptor
FillLabels ==
    {"read_header_desc", "read_data_desc", "read_status_desc",
     "write_head_desc", "write_data_desc", "write_status_desc"}

\* the descriptor passed to fill_next_descriptor by the statement at label
DescPassed(t, label) ==
    CASE label = "read_header_desc" -> ReadHeaderDesc(Len(requests) + 1)
      [] label = "read_data_desc" -> ReadDataDesc(call[t].buffer, call[t].size)
      [] label = "read_status_desc" -> ReadStatusDesc(local[t].blk_request)
      [] OTHER -> ZeroDescriptor

\* the index the statement at label got back from fill_next_descriptor
IndexReturned(loc, label) ==
    CASE label \in {"read_header_desc", "write_head_desc"} -> loc.head_idx
      [] label \in {"read_data_desc", "write_data_desc"} -> loc.data_idx
      [] OTHER -> loc.status_idx

\* the index returned by the last of n successive fill_next_descriptor calls
RECURSIVE LastIndexOf(_, _, _)
LastIndexOf(bd, q, n) ==
    LET res == fill_next_descriptor(bd, q, ZeroDescriptor)
    IN IF n <= 1 THEN res.ret ELSE LastIndexOf(res.bd, res.queue, n - 1)

\* every device there is: in the Registry or in the hands of a call
DevicesOf(vdq) == {vdq[i] : i \in 1..Len(vdq)}
AllDevices ==
    DevicesOf(BLOCK_DEVICES.vdq)
    \cup UNION {DevicesOf(local[t].vdq) : t \in Threads}

\* C7: every fill_next_descriptor call advances the cursor of its device by
\* exactly one modulo the ring capacity, stores the descriptor in the slot
\* at the new cursor (and in no other) and returns the new cursor; every
\* cursor is within 0..capacity-1; and of capacity+1 successive allocations,
\* the call being the first, the last returns the index the first returned.
C7_CursorAdvancesByOne ==
    [][/\ \A t \in Threads, label \in FillLabels :
            (Leaves(t, label) /\ pc'[t] # "panic") =>
               LET c == Bdev(t).idx
                   n == (c + 1) % VIRTIO_RING_SIZE
                   q == queues[Bdev(t).queue]
                   given == DescPassed(t, label)
                   stored == queues'[Bdev(t).queue].desc[n]
               IN /\ local'[t].vdq[call[t].dev + 1].idx = n
                  /\ IndexReturned(local'[t], label) = n
                  /\ stored.addr = given.addr
                  /\ stored.len = given.len
                  /\ stored.flags = given.flags
                  /\ \A i \in Slots \ {n} :
                        queues'[Bdev(t).queue].desc[i] = q.desc[i]
                  /\ LastIndexOf(local'[t].vdq[call[t].dev + 1],
                                 queues'[Bdev(t).queue], VIRTIO_RING_SIZE) = n
                  /\ LastIndexOf(local'[t].vdq[call[t].dev + 1],
                                 queues'[Bdev(t).queue], VIRTIO_RING_SIZE - 1) # n
       /\ \A bd \in AllDevices : bd.idx \in Slots
      ]_vars

\* a fill_next_descriptor call found the cursor on the last slot and
\* returned slot 0
C7_Witness ==
    \E t \in Threads :
        /\ IsRead(t) \/ IsWrite(t)
        /\ local[t].took /\ HasDevice(t)
        /\ CursorBefore(t) = VIRTIO_RING_SIZE - 1
        /\ pc[t] \in {"read_header_fields", "write_data_desc"}
        /\ local[t].head_idx = 0
        /\ Bdev(t).idx = 0

----------------------------------------------------------------------------
(* C8 *)

\* C8: a read or write that took the contents of the Registry has put them
\* back when it returns: the Registry is then available and holds the
\* devices the call took.
C8_ReadWriteRestoreRegistry ==
    [][\A t \in Threads :
         (Leaves(t, "read_notify") \/ Leaves(t, "write_status_desc")) =>
            /\ BLOCK_DEVICES'.some
            /\ Len(BLOCK_DEVICES'.vdq) = Len(local[t].before)
      ]_vars

----------------------------------------------------------------------------
(* C9 *)

\* C9: when BLOCK_DEVICES is None (init was never called, or another call
\* holds the contents), setup_block_device returns false at once, without
\* an access to a device register and without adding a device, and read
\* returns at once without touching a descriptor, the available ring, its
\* producer index, a device cursor or the doorbell.
C9_UnavailableRegistryIsNoOp ==
    [][\A t \in Threads :
         ~BLOCK_DEVICES.some =>
            /\ (\E ptr \in Ptrs : setup_take(t, ptr)) =>
                  /\ pc'[t] = "done"
                  /\ local'[t].ret = "false"
                  /\ io'[t] = <<>>
                  /\ UNCHANGED <<BLOCK_DEVICES, regs, queues, requests>>
                  /\ \A u \in Threads \ {t} : local'[u] = local[u]
            /\ (\E dev \in Devs, buffer \in Buffers, size \in Sizes,
                   offset \in Offsets :
                      read_take(t, dev, buffer, size, offset)) =>
                  /\ pc'[t] = "done"
                  /\ local'[t].ret = "unit"
                  /\ io'[t] = <<>>
                  /\ UNCHANGED <<BLOCK_DEVICES, regs, queues, requests>>
                  /\ \A u \in Threads \ {t} : local'[u] = local[u]
      ]_vars

\* a read returned as a no-op, and a setup returned false, because the other
\* caller, which is still in its call, owned the contents
C9_Witness ==
    \E t \in Threads, u \in Threads :
        /\ t # u
        /\ local[u].holds /\ pc[u] \notin {"idle", "done", "panic"}
        /\ Returned(t) /\ ~local[t].took /\ local[t].held_by = u
        /\ \/ IsRead(t) /\ local[t].ret = "unit"
           \/ IsSetup(t) /\ local[t].ret = "false"
        /\ io[t] = <<>>

----------------------------------------------------------------------------
(* C10 *)

\* the chain of read call t is completely written: its three descriptors are
\* in place and linked, the header of its Request is filled in, its head is
\* in the available ring at the producer index the call found, and the
\* producer index has moved on
ChainComplete(t) ==
    LET q == queues[Bdev(t).queue]
        r == local[t].blk_request
        h == local[t].head_idx
        d == local[t].data_idx
        s == local[t].status_idx
    IN /\ q.desc[h] = [ReadHeaderDesc(r) EXCEPT !.next = d]
       /\ q.desc[d] = [ReadDataDesc(call[t].buffer, call[t].size) EXCEPT !.next = s]
       /\ q.desc[s] = ReadStatusDesc(r)
       /\ requests[r].header.sector = call[t].offset \div 512
       /\ requests[r].header.blktype = VIRTIO_BLK_T_IN
       /\ q.avail.ring[local[t].q0.avail.idx] = h
       /\ q.avail.idx = (local[t].q0.avail.idx + 1) % VIRTIO_RING_SIZE

Doorbells(t) == WritesTo(t, "QueueNotify")

\* C10: a read writes the doorbell only with its chain completely written
\* (descriptors, header fields, head in the available ring, producer index
\* advanced), writes it with value 0 to the register block of its device,
\* and writes it once: a read that returned after taking the Registry has
\* exactly one doorbell write, and one that is still running has none.
C10_DoorbellAfterChain ==
    [][\A t \in Threads :
         /\ (IsRead(t) /\ Len(Doorbells(t)') > Len(Doorbells(t))) =>
               /\ ChainComplete(t)
               /\ Doorbells(t)' =
                     <<Access("write", Bdev(t).dev, "QueueNotify", 0)>>
               /\ UNCHANGED <<queues, requests>>
         /\ (IsRead(t) /\ local[t].took /\ ~Returned(t)) => Doorbells(t) = <<>>
         /\ (IsRead(t) /\ local[t].took /\ Returned(t)) => Len(Doorbells(t)) = 1
      ]_vars

\* a read has rung the doorbell of its device, with its chain complete
C10_Witness ==
    \E t \in Threads :
        /\ IsRead(t) /\ Returned(t) /\ local[t].took
        /\ Len(Doorbells(t)) = 1
        /\ Doorbells(t)[1].val = 0
        /\ ChainComplete(t)

----------------------------------------------------------------------------
(* C11 *)

\* write call t found the Registry available and its device in it, and has
\* returned
WriteReturned(t) ==
    /\ IsWrite(t) /\ Returned(t) /\ local[t].took
    /\ call[t].dev + 1 <= Len(local[t].before)

\* C11: a write that finds the Registry available (and its device in it)
\* installs a 3-descriptor chain: a chained header descriptor pointing at a
\* header with blktype WRITE and sector offset div 512, a data descriptor
\* pointing at the caller's buffer with length size, chained and not
\* device-writable, and a status descriptor that ends the chain; it stores
\* the head index in the available ring at the producer index it found,
\* advances the producer index by 1 modulo the capacity, and writes the
\* doorbell once.
C11_WriteSubmitsChain ==
    \A t \in Threads :
        WriteReturned(t) =>
            LET q == queues[Bdev(t).queue]
                r == local[t].blk_request
                h == local[t].head_idx
                d == local[t].data_idx
                s == local[t].status_idx
                a == local[t].q0.avail.idx
            IN /\ Chained(q.desc[h]) /\ ~DeviceWritable(q.desc[h])
               /\ q.desc[h].next = d
               /\ r \in 1..Len(requests)
               /\ q.desc[h].addr = HeaderAddr(r)
               /\ requests[r].header.blktype = VIRTIO_BLK_T_OUT
               /\ requests[r].header.sector = call[t].offset \div 512
               /\ q.desc[d].addr = BufferAddr(call[t].buffer)
               /\ q.desc[d].len = call[t].size
               /\ Chained(q.desc[d]) /\ ~DeviceWritable(q.desc[d])
               /\ q.desc[d].next = s
               /\ ~Chained(q.desc[s])
               /\ q.avail.ring[a] = h
               /\ q.avail.idx = (a + 1) % VIRTIO_RING_SIZE
               /\ Len(WritesTo(t, "QueueNotify")) = 1

----------------------------------------------------------------------------
(* C12 *)

\* C12: within one setup_block_device call, every value written to the
\* status register after the reset write contains all bits of the value
\* written before it, on the success path and on the failure paths (so
\* ACKNOWLEDGE is still set in the write that sets FAILED).
C12_StatusBitsOnlyAdded ==
    \A t \in Threads :
        IsSetup(t) =>
            \A i \in 1..(Len(StatusWrites(t)) - 1) :
                StatusWrites(t)[i] \subseteq StatusWrites(t)[i + 1]

----------------------------------------------------------------------------
(* C13 *)

\* call t is a read or write that took the Registry and addresses a device
\* id not smaller than the number of devices it found there
MissingDevice(t) ==
    /\ IsRead(t) \/ IsWrite(t)
    /\ local[t].took
    /\ call[t].dev + 1 > Len(local[t].before)

\* C13: no call of setup_block_device, read or write ends in a panic: a
\* read or write whose device id is not smaller than the number of devices
\* in the Registry returns silently, with every ring as it was.
C13_NoCallPanics ==
    \A t \in Threads :
        /\ pc[t] # "panic"
        /\ local[t].ret # "panic"
        /\ (MissingDevice(t) /\ pc[t] \notin {"read_header_desc", "write_head_desc"}) =>
              Returned(t) /\ local[t].ret = "unit"

----------------------------------------------------------------------------
(* C14 *)

\* where in the access log of call t the register reg is written
WritePositions(t, reg) ==
    {i \in 1..Len(io[t]) : io[t][i].kind = "write" /\ io[t][i].reg = reg}

\* the labels of setup_block_device up to the statement that writes the
\* guest features
UpToFeatures ==
    {"setup_reset", "setup_acknowledge", "setup_driver", "setup_features"}

\* C14: the value setup_block_device writes to the guest-features register
\* is the host bitmap it read with bit 5 (VIRTIO_BLK_F_RO) cleared and every
\* other bit as the host offered it; the register is written exactly once
\* per setup, after the status write of step 3 (reset, ACKNOWLEDGE and the
\* DRIVER step precede it) and before the status write that sets
\* FEATURES_OK.
C14_GuestFeaturesClearReadOnly ==
    \A t \in Threads :
        (IsSetup(t) /\ local[t].took) =>
            LET gf == WritePositions(t, "GuestFeatures")
                st == WritePositions(t, "Status")
            IN /\ Cardinality(gf) = IF pc[t] \in UpToFeatures THEN 0 ELSE 1
               /\ \A i \in gf :
                     /\ i > 1
                     /\ io[t][i - 1].kind = "read"
                     /\ io[t][i - 1].reg = "HostFeatures"
                     /\ VIRTIO_BLK_F_RO \notin io[t][i].val
                     /\ \A b \in Bits32 \ {VIRTIO_BLK_F_RO} :
                           b \in io[t][i].val <=> b \in io[t][i - 1].val
                     /\ Cardinality({j \in st : j < i}) = 3
                     /\ \A j \in st : j < i => ~features_ok(io[t][j].val)
                     /\ \A j \in st :
                           (j > i /\ \A k \in st : k > i => k >= j) =>
                              features_ok(io[t][j].val)

\* a setup read a host bitmap with every bit set, wrote it back with only
\* bit 5 cleared, and has since written FEATURES_OK
C14_Witness ==
    \E t \in Threads :
        /\ IsSetup(t) /\ local[t].took
        /\ local[t].host_features = Bits32
        /\ Len(WritesTo(t, "GuestFeatures")) = 1
        /\ WritesTo(t, "GuestFeatures")[1].val = Bits32 \ {5}
        /\ Len(StatusWrites(t)) >= 4
        /\ features_ok(StatusWrites(t)[4])

----------------------------------------------------------------------------
(* Calls that run concurrently down to the accesses of BLOCK_DEVICES        *)
(*                                                                         *)
(* BLOCK_DEVICES is a static mut and take() is mem::replace(self, None) on  *)
(* it: a load of the Option followed by a store of None, with nothing that  *)
(* makes the pair atomic.  Two calls that run concurrently (on two harts,   *)
(* or one entered from an interrupt taken inside the other) race on it.     *)
(* Here the load and the store are steps of their own.  Once two calls have *)
(* loaded the same Some contents, both own one VecDeque and what they do    *)
(* with it is undefined; each call goes on here with the contents its load  *)
(* saw, which is one of the outcomes.                                       *)

\* calls made concurrently on the driver with one device registered (SpecRace)
RaceCalls == 2

\* the load of BLOCK_DEVICES in the take at the head of setup_block_device
setup_take_load(t, ptr) ==
    /\ Ready(t)
    /\ ncalls' = ncalls + 1
    /\ call' = [call EXCEPT ![t] = [NoCall EXCEPT !.op = "setup", !.ptr = ptr]]
    /\ io' = [io EXCEPT ![t] = <<>>]
    /\ local' = [local EXCEPT ![t] =
                    [NoLocal EXCEPT !.vdq = BLOCK_DEVICES.vdq,
                                    !.before = BLOCK_DEVICES.vdq,
                                    !.took = BLOCK_DEVICES.some]]
    /\ pc' = [pc EXCEPT ![t] = "take_store"]
    /\ UNCHANGED <<BLOCK_DEVICES, queues, requests, regs>>

\* the load of BLOCK_DEVICES in the take at the head of read
read_take_load(t, dev, buffer, size, offset) ==
    /\ Ready(t)
    /\ ncalls' = ncalls + 1
    /\ call' = [call EXCEPT ![t] =
                   [op |-> "read", ptr |-> 0, dev |-> dev, buffer |-> buffer,
                    size |-> size, offset |-> offset]]
    /\ io' = [io EXCEPT ![t] = <<>>]
    /\ local' = [local EXCEPT ![t] =
                    [NoLocal EXCEPT !.vdq = BLOCK_DEVICES.vdq,
                                    !.before = BLOCK_DEVICES.vdq,
                                    !.took = BLOCK_DEVICES.some]]
    /\ pc' = [pc EXCEPT ![t] = "take_store"]
    /\ UNCHANGED <<BLOCK_DEVICES, queues, requests, regs>>

\* the load of BLOCK_DEVICES in the take at the head of write
write_take_load(t, dev, buffer, size, offset) ==
    /\ Ready(t)
    /\ ncalls' = ncalls + 1
    /\ call' = [call EXCEPT ![t] =
                   [op |-> "write", ptr |-> 0, dev |-> dev, buffer |-> buffer,
                    size |-> size, offset |-> offset]]
    /\ io' = [io EXCEPT ![t] = <<>>]
    /\ local' = [local EXCEPT ![t] =
                    [NoLocal EXCEPT !.vdq = BLOCK_DEVICES.vdq,
                                    !.before = BLOCK_DEVICES.vdq,
                                    !.took = BLOCK_DEVICES.some]]
    /\ pc' = [pc EXCEPT ![t] = "take_store"]
    /\ UNCHANGED <<BLOCK_DEVICES, queues, requests, regs>>

\* where a call goes on after a take that found Some contents
AfterTake(op) ==
    CASE op = "setup" -> "setup_reset"
      [] op = "read" -> "read_header_desc"
      [] OTHER -> "write_head_desc"

\* what a call returns after a take that found None
NoneResult(op) == IF op = "setup" THEN "false" ELSE "unit"

\* the store of None that ends the take; the call then goes on with what its
\* load found: Some contents, which it now treats as its own, or None
take_store(t) ==
    /\ pc[t] = "take_store"
    /\ BLOCK_DEVICES' = None
    /\ IF local[t].took
       THEN /\ local' = [local EXCEPT ![t].holds = TRUE]
            /\ pc' = [pc EXCEPT ![t] = AfterTake(call[t].op)]
       ELSE /\ local' = [local EXCEPT ![t].ret = NoneResult(call[t].op),
                                      ![t].held_by = Holder]
            /\ pc' = [pc EXCEPT ![t] = "done"]
    /\ UNCHANGED <<queues, requests, regs, call, io, ncalls>>

NextRace ==
    \E t \in Threads :
        \/ init(t)
        \/ \E ptr \in Ptrs : setup_take_load(t, ptr)
        \/ \E dev \in Devs, buffer \in Buffers, size \in Sizes, offset \in Offsets :
              read_take_load(t, dev, buffer, size, offset)
        \/ \E dev \in Devs, buffer \in Buffers, size \in Sizes, offset \in Offsets :
              write_take_load(t, dev, buffer, size, offset)
        \/ take_store(t)
        \/ setup_reset(t)
        \/ setup_acknowledge(t)
        \/ setup_driver(t)
        \/ setup_features(t)
        \/ setup_features_ok(t)
        \/ setup_reread(t)
        \/ setup_queue_num(t)
        \/ setup_queue_pfn(t)
        \/ setup_push_back(t)
        \/ setup_replace(t)
        \/ setup_driver_ok(t)
        \/ read_header_desc(t)
        \/ read_header_fields(t)
        \/ read_data_desc(t)
        \/ read_status_desc(t)
        \/ read_avail_ring(t)
        \/ read_avail_idx(t)
        \/ read_notify(t)
        \/ write_head_desc(t)
        \/ write_data_desc(t)
        \/ write_status_desc(t)

\* the state init() and a successful setup_block_device of register block 1
\* leave: one device, cursor 1, an all-zero ring
RaceInit ==
    /\ BLOCK_DEVICES = Some(<<NewBlockDevice(1, 1)>>)
    /\ queues = <<ZeroQueue>>
    /\ requests = <<>>
    /\ regs = [p \in Ptrs |->
                 IF p = 1
                 THEN [status |-> BitOr(Word(Acknowledge),
                                        BitOr(DriverStepBits,
                                              BitOr(Word(FeaturesOk), Word(DriverOk)))),
                       queue_num |-> VIRTIO_RING_SIZE, queue_pfn |-> 1]
                 ELSE [status |-> {}, queue_num |-> 0, queue_pfn |-> 0]]
    /\ pc = [t \in Threads |-> "idle"]
    /\ call = [t \in Threads |-> NoCall]
    /\ local = [t \in Threads |-> NoLocal]
    /\ io = [t \in Threads |-> <<>>]
    /\ ncalls = MaxCalls - RaceCalls

SpecRace == RaceInit /\ [][NextRace]_vars

----------------------------------------------------------------------------
(* C15 *)

\* the callers that hold contents taken out of BLOCK_DEVICES
Holders == {t \in Threads : local[t].holds}

\* call t is between two of its fill_next_descriptor calls, or about to make
\* one, on a device it found
Filling(t) ==
    /\ pc[t] \in {"read_header_desc", "read_header_fields", "read_data_desc",
                  "read_status_desc", "write_head_desc", "write_data_desc",
                  "write_status_desc"}
    /\ HasDevice(t)

\* C15: under every interleaving of two concurrently running calls, at most
\* one call holds the contents of the Registry at any time, and two calls
\* are never both filling descriptors on the ring of the same device.
C15_AtMostOneHolder ==
    /\ Cardinality(Holders) <= 1
    /\ \A t \in Threads, u \in Threads :
          (t # u /\ Filling(t) /\ Filling(u)) => Bdev(t).queue # Bdev(u).queue

----------------------------------------------------------------------------
(* C16 *)

\* C16: setup_block_device writes the queue-size register only after the
\* capacity check has passed: a call whose device reported a maximum ring
\* size below VIRTIO_RING_SIZE has made no write to the queue-size register.
C16_QueueNumAfterCapacityCheck ==
    \A t \in Threads :
        (IsSetup(t) /\ RingTooSmall(t)) => WritesTo(t, "QueueNum") = <<>>

----------------------------------------------------------------------------
(* C17 *)

\* C17: a setup_block_device call that fails by feature rejection or by the
\* capacity check has put the contents of the Registry back when it
\* returns: the Registry is then available and holds exactly the devices
\* the call took.
C17_FailedSetupRestoresRegistry ==
    [][\A t \in Threads :
         ((Leaves(t, "setup_reread") \/ Leaves(t, "setup_queue_num"))
             /\ pc'[t] = "done") =>
            BLOCK_DEVICES' = Some(local[t].before)
      ]_vars

----------------------------------------------------------------------------
(* C18 *)

\* C18: the header descriptor a read installs has the length of the Header
\* (16 bytes: 4 of type, 4 reserved, 8 of sector), not that of the whole
\* Request record, and the status descriptor has length 1.
C18_HeaderDescriptorLength ==
    \A t \in Threads :
        Submitted(t) =>
            LET q == queues[Bdev(t).queue]
            IN /\ q.desc[local[t].head_idx].len = SizeOfHeader
               /\ q.desc[local[t].head_idx].len = 16
               /\ q.desc[local[t].status_idx].len = 1

----------------------------------------------------------------------------
(* C19 *)

\* the heads published in the available ring of q and not consumed (nothing
\* consumes them): the entries below the producer index
PublishedHeads(q) == {q.avail.ring[k] : k \in 0..(q.avail.idx - 1)}

\* the chain that starts at slot h of q is the chain of one read request:
\* header, data and status descriptor of the same Request, linked
ChainIntact(q, h) ==
    LET d == q.desc[h].next
        s == q.desc[d].next
    IN /\ q.desc[h].addr[1] = "header" /\ Chained(q.desc[h])
       /\ q.desc[d].addr[1] = "buffer" /\ Chained(q.desc[d])
       /\ q.desc[s].addr = StatusAddr(q.desc[h].addr[2])
       /\ ~Chained(q.desc[s])

\* a slot of a chain published on some ring has been written over
PublishedChainOverwritten ==
    \E i \in 1..Len(queues) :
        \E h \in PublishedHeads(queues[i]) : ~ChainIntact(queues[i], h)

\* calls made one after the other by one caller: init, setup_block_device,
\* and then reads of device 0, enough of them for the cursor to go round
\* the ring (two chains fit after cursor 1, the third wraps)
WrapCalls == 5

\* the number of calls the caller of the wrap-around run has made
WrapCallsMade == ncalls - (MaxCalls - WrapCalls)

\* the operation that is called next in the wrap-around run
WrapTurn ==
    CASE WrapCallsMade = 0 -> "init"
      [] WrapCallsMade = 1 -> "setup"
      [] OTHER -> "read"

WrapInit ==
    /\ BLOCK_DEVICES = None
    /\ queues = <<>>
    /\ requests = <<>>
    /\ regs = [p \in Ptrs |-> [status |-> {}, queue_num |-> 0, queue_pfn |-> 0]]
    /\ pc = [t \in Threads |-> "idle"]
    /\ call = [t \in Threads |-> NoCall]
    /\ local = [t \in Threads |-> NoLocal]
    /\ io = [t \in Threads |-> <<>>]
    /\ ncalls = MaxCalls - WrapCalls

\* the run: caller 1 calls init(), setup_block_device on a device that
\* keeps FEATURES_OK and offers a large enough ring, and read(0, ...) again
\* and again
NextWrap ==
    \/ WrapTurn = "init" /\ init(1)
    \/ WrapTurn = "setup" /\ \E ptr \in Ptrs : setup_take(1, ptr)
    \/ setup_reset(1)
    \/ setup_acknowledge(1)
    \/ setup_driver(1)
    \/ setup_features(1)
    \/ setup_features_ok(1)
    \/ setup_reread(1) /\ features_ok(local'[1].status_ok)
    \/ setup_queue_num(1) /\ ~QueueTooLarge(local'[1].qnmax)
    \/ setup_queue_pfn(1)
    \/ setup_push_back(1)
    \/ setup_replace(1)
    \/ setup_driver_ok(1)
    \/ WrapTurn = "read" /\ \E buffer \in Buffers, size \in Sizes, offset \in Offsets :
                               read_take(1, 0, buffer, size, offset)
    \/ read_header_desc(1)
    \/ read_header_fields(1)
    \/ read_data_desc(1)
    \/ read_status_desc(1)
    \/ read_avail_ring(1)
    \/ read_avail_idx(1)
    \/ read_notify(1)

SpecWrap == WrapInit /\ [][NextWrap]_vars

\* every call of the wrap-around run has been made and has returned
WrapFinished == ncalls = MaxCalls /\ pc[1] = "done"

----------------------------------------------------------------------------
(* C20 *)

\* the first two slots of every descriptor array are as zalloc left them
FirstTwoSlotsUntouched ==
    \A i \in 1..Len(queues) :
        queues[i].desc[0] = ZeroDescriptor /\ queues[i].desc[1] = ZeroDescriptor

\* C20: a device that setup_block_device has put into the Registry has
\* cursor 1 and an all-zero ring with producer index 0; the first read on
\* it (every read that submits finds its device in that state) fills the
\* descriptor slots 2, 3, 4, publishes head 2 in slot 0 of the available
\* ring and leaves the producer index at 1; slots 0 and 1 of a descriptor
\* array are not written before the cursor has gone round the ring.
C20_FirstReadFillsSlotsTwoToFour ==
    /\ \A i \in 1..Len(BLOCK_DEVICES.vdq) :
          /\ BLOCK_DEVICES.vdq[i].idx = 1
          /\ queues[BLOCK_DEVICES.vdq[i].queue] = ZeroQueue
    /\ \A t \in Threads :
          Submitted(t) =>
             LET q == queues[Bdev(t).queue]
             IN /\ CursorBefore(t) = 1
                /\ local[t].q0 = ZeroQueue
                /\ <<local[t].head_idx, local[t].data_idx, local[t].status_idx>>
                      = <<2, 3, 4>>
                /\ \A i \in {2, 3, 4} : q.desc[i] # ZeroDescriptor
                /\ \A i \in Slots \ {2, 3, 4} : q.desc[i] = ZeroDescriptor
                /\ q.avail.ring[0] = 2
                /\ q.avail.idx = 1
                /\ Bdev(t).idx = 4
    /\ (\A bd \in AllDevices : bd.idx \in 1..(VIRTIO_RING_SIZE - 1)) =>
          FirstTwoSlotsUntouched

\* the first read on a newly registered device has returned: its chain is
\* in slots 2, 3, 4, its head in slot 0 of the available ring
C20_Witness ==
    \E t \in Threads :
        /\ Submitted(t)
        /\ CursorBefore(t) = 1
        /\ local[t].head_idx = 2
        /\ local[t].status_idx = 4
        /\ queues[Bdev(t).queue].avail.ring[0] = 2
        /\ queues[Bdev(t).queue].avail.idx = 1
        /\ queues[Bdev(t).queue].desc[1] = ZeroDescriptor

====
